---- MODULE Spec2Model ----
(***************************************************************************)
(* The egg dependency resolver: the hatch_eggs decorator                   *)
(* (src/egg/decorator.py), the Hatcher (src/egg/hatcher.py) and the        *)
(* helpers of src/egg/util.py, as a state machine.                         *)
(*                                                                         *)
(* A declaration graph (the signatures of the decorated target and of the  *)
(* providers) and the caller's arguments are drawn in Init.  One top-level *)
(* call then runs the code of async_wrapper, Hatcher.hatch and             *)
(* Hatcher.build_callable_kwargs step by step: the awaiting callers are    *)
(* the frames of stack, the innermost frame last.                          *)
(***************************************************************************)
EXTENDS Integers, Sequences, FiniteSets, TLC

VARIABLES
    sig,          \* callable -> its parameter declarations, in order
    calls,        \* the top-level calls that are made
    given,        \* call -> the caller's positional and keyword arguments
    pc,           \* call -> position of async_wrapper
    ti,           \* call -> index of the target parameter the wrapper is at
    kwargs,       \* call -> the wrapper's kwargs dict
    available,    \* call -> Hatcher.available (the same dict the wrapper holds)
    cache,        \* call -> Hatcher.cache
    resolving,    \* call -> Hatcher.resolving
    stack,        \* call -> frames of hatch/build_callable_kwargs in progress
    exc,          \* call -> the exception in flight, or the one the call raised
    bound,        \* call -> the arguments the target was invoked with
    ncalls,       \* provider -> how many times its body has been entered
    log,          \* call -> what happened, in order (history)
    style,        \* provider -> "function" or "generator" (how it is written)
    gens,         \* generator object -> its state (the generators created)
    u             \* a direct use of the helpers of util.py: function, position, result

vars == <<sig, calls, given, pc, ti, kwargs, available, cache, resolving,
          stack, exc, bound, ncalls, log, style, gens, u>>

-----------------------------------------------------------------------------
(* Bounds of the model.                                                    *)

\* Most markers (Egg declarations) in one declaration graph.
MaxEggs == 3

\* Most marker-less parameters in one declaration graph.
MaxPlain == 2

Providers == {"p", "q"}

Target == "target"

Callables == Providers \cup {Target}

\* Parameter names a callable may declare.
Names == {"a", "b"}

CallIds == {1, 2}

-----------------------------------------------------------------------------
(* Values.                                                                 *)

Val(tag, who, n) == [tag |-> tag, who |-> who, n |-> n]

\* The value the caller of call c passes for parameter name.
CallerVal(c, name) == Val("arg", name, c)

\* The value the k-th execution of provider p returns.
ReturnVal(p, k) == Val("ret", p, k)

\* A parameter's own plain default value.
DefaultVal(func, name) == Val("default", name, 0)

\* An Egg object used as a value (a default that was never hatched).
EggVal(egg) == Val("egg", egg.dependency, IF egg.use_cache THEN 1 ELSE 0)

\* Partial maps (dicts).
EmptyDict == << >>

Put(d, k, v) == [x \in DOMAIN d \cup {k} |-> IF x = k THEN v ELSE d[x]]

Update(d, e) == [x \in DOMAIN d \cup DOMAIN e |-> IF x \in DOMAIN e THEN e[x] ELSE d[x]]

-----------------------------------------------------------------------------
(* Declarations.                                                           *)

\* Egg(dependency, use_cache=...)
Egg(dependency, use_cache) == [dependency |-> dependency, use_cache |-> use_cache]

Eggs == [dependency : Providers, use_cache : BOOLEAN]

None == [dependency |-> "None", use_cache |-> FALSE]

\* What a default value or an item of Annotated metadata can be.
EggItem(egg) == [kind |-> "egg", egg |-> egg]

PlainItem == [kind |-> "plain", egg |-> None]

\* inspect.Parameter.empty
Empty == [kind |-> "empty", egg |-> None]

Param(name, hint, default) == [name |-> name, hint |-> hint, default |-> default]

is_egg(item) == item.kind = "egg"

\* An extraction that lets a marker in the default win over the annotation.
find_egg_default_first(param) ==
    IF param.default.kind = "egg" THEN param.default.egg
    ELSE IF {i \in 1..Len(param.hint) : param.hint[i].kind = "egg"} = {} THEN None
    ELSE param.hint[CHOOSE i \in 1..Len(param.hint) :
                        /\ param.hint[i].kind = "egg"
                        /\ \A j \in 1..(i - 1) : param.hint[j].kind # "egg"].egg

\* hint: the metadata of the parameter's Annotated hint (get_args(hint)[1:]),
\* << >> when the hint is missing or not Annotated.
extract_eggs(hint) ==
    LET found == {i \in 1..Len(hint) : is_egg(hint[i])}
    IN  IF found = {} THEN None
        ELSE hint[CHOOSE i \in found : \A j \in found : i <= j].egg

\* The marker the decorator and build_callable_kwargs read off a parameter.
find_egg(param) ==
    LET eggs == extract_eggs(param.hint)
    IN  IF eggs = None /\ is_egg(param.default) THEN param.default.egg ELSE eggs

param_names(func) == [i \in 1..Len(sig[func]) |-> sig[func][i].name]

build_available_values_from_args_kwargs(args, kw, names) ==
    LET n == IF Len(args) < Len(names) THEN Len(args) ELSE Len(names)
        positional == [x \in {names[i] : i \in 1..n} |->
                          args[CHOOSE i \in 1..n : names[i] = x]]
    IN  Update(positional, kw)

-----------------------------------------------------------------------------------------------------------------------------------------------------
(* The declaration graphs and the calls the model draws its inputs from.   *)

Required(name) == Param(name, << >>, Empty)

Defaulted(name) == Param(name, << >>, PlainItem)

\* name: Annotated[T, Egg(...)]
Annotated(name, egg) == Param(name, <<EggItem(egg)>>, Empty)

\* name: T = Egg(...)
DefaultSyntax(name, egg) == Param(name, << >>, EggItem(egg))

PlainParams(name) == {Required(name), Defaulted(name)}

\* A marker is written in the Annotated form, and in the default form after
\* a parameter that has a default (where a parameter without one would not
\* be valid Python).
FirstShapes(name) == PlainParams(name) \cup {Annotated(name, e) : e \in Eggs}

NextShapes(x, name) ==
    IF x.default = Empty
    THEN FirstShapes(name)
    ELSE {Defaulted(name)} \cup {DefaultSyntax(name, e) : e \in Eggs}

\* Signatures: the first parameter is named a and the second b.
TargetSigs ==
    {<< >>} \cup {<<x>> : x \in FirstShapes("a")}
            \cup UNION {{<<x, y>> : y \in NextShapes(x, "b")} : x \in FirstShapes("a")}

\* A provider may also be declared with a receiver-style first parameter.
ProviderSigs ==
    TargetSigs \cup {<<Required("self")>> \o s : s \in {t \in TargetSigs : Len(t) <= 1}}

EggCount(s) == Cardinality({i \in 1..Len(s) : find_egg(s[i]) # None})

PlainCount(s) == Len(s) - EggCount(s)

\* The signatures with at most e markers and r marker-less parameters.
Within ==
    [e \in 0..MaxEggs, r \in 0..MaxPlain |->
        {s \in ProviderSigs : EggCount(s) <= e /\ PlainCount(s) <= r}]

\* The providers a signature names.
Deps(s) == {find_egg(s[i]).dependency : i \in {j \in 1..Len(s) : find_egg(s[j]) # None}}

RECURSIVE ReachableFrom(_, _)
ReachableFrom(g, seen) ==
    LET more == UNION {Deps(g[f]) : f \in seen} \ seen
    IN  IF more = {} THEN seen ELSE ReachableFrom(g, seen \cup more)

Graph(t, p, q) == [f \in Callables |-> IF f = Target THEN t ELSE IF f = "p" THEN p ELSE q]

\* One graph of each class of graphs that differ in the providers' names
\* only: a provider no marker leads to declares nothing (its signature is
\* never read), and the target's first marker names p.
Canonical(g) ==
    /\ \A f \in Providers : f \notin ReachableFrom(g, {Target}) => g[f] = << >>
    /\ \A i \in 1..Len(g[Target]) :
          (find_egg(g[Target][i]) # None
             /\ \A j \in 1..(i - 1) : find_egg(g[Target][j]) = None)
          => find_egg(g[Target][i]).dependency = "p"

\* The declaration graphs: at most MaxEggs markers and MaxPlain marker-less
\* parameters in all.
IsGraph(g) ==
    /\ EggCount(g[Target]) + EggCount(g["p"]) + EggCount(g["q"]) <= MaxEggs
    /\ PlainCount(g[Target]) + PlainCount(g["p"]) + PlainCount(g["q"]) <= MaxPlain
    /\ Canonical(g)

\* The calls of a target: a prefix of its parameters passed positionally and
\* some of the others by keyword.
GivenFor(c, s) ==
    {[args |-> [i \in 1..n |-> CallerVal(c, s[i].name)],
      kwargs |-> [x \in ks |-> CallerVal(c, x)]] :
        n \in 0..Len(s), ks \in SUBSET {s[i].name : i \in 1..Len(s)}}

ValidGiven(s, g) == \A i \in 1..Len(g.args) : s[i].name \notin DOMAIN g.kwargs

NoGiven == [args |-> << >>, kwargs |-> EmptyDict]

-----
(* Exceptions.                                                             *)

Cause(kind, subject) == [kind |-> kind, subject |-> subject]

NoExc == [kind |-> "none", subject |-> "", wraps |-> 0,
          cause |-> Cause("none", ""), origin |-> Cause("none", "")]

\* An exception raised with no cause: kind "circular" and "missing" are the
\* EggHatchingError of hatcher.py, "provider" what a provider's body raises,
\* "type" the TypeError of a call that lacks a required argument.
Raised(kind, subject) ==
    [kind |-> kind, subject |-> subject, wraps |-> 0,
     cause |-> Cause("none", ""), origin |-> Cause(kind, subject)]

\* A wrapper that raises its error without `from e`, around an error that
\* lost its identity.
Wrapped_unchained(name, e) ==
    [kind |-> "hatching", subject |-> name, wraps |-> e.wraps + 1,
     cause |-> Cause("none", ""), origin |-> e.origin]

\* raise EggHatchingError(f"Failed to hatch '{name}': {e}") from e
Wrapped(name, e) ==
    [kind |-> "hatching", subject |-> name, wraps |-> e.wraps + 1,
     cause |-> Cause(e.kind, e.subject), origin |-> e.origin]

-----------------------------------------------------------------------------
(* Generators and the helpers of util.py that drive them.                  *)

\* What the body of a generator function does when it is first advanced
\* (its setup, up to the first yield) ...
FirstSteps == {"yield", "raise", "return"}

\* ... and when it is advanced again (its teardown, after the first yield):
\* it runs to its end, yields again, raises an Exception, raises a
\* BaseException that is no Exception (KeyboardInterrupt, SystemExit,
\* asyncio.CancelledError), or does not finish within the timeout.
SecondSteps == {"return", "yield", "raise", "interrupt", "hang"}

\* The bodies of generator functions.
GeneratorScripts ==
    {[first |-> "yield", second |-> s] : s \in SecondSteps}
        \cup {[first |-> f, second |-> "none"] : f \in {"raise", "return"}}

\* The bodies of functions that are no generators: they return or raise.
FunctionScripts == {[first |-> f, second |-> "none"] : f \in {"return", "raise"}}

\* def provider(): <setup>; yield value; <teardown>
OneYield == [first |-> "yield", second |-> "return"]

\* A callable: a function, or an object whose __call__ is one; its body is a
\* generator ("gen"), an async generator, a coroutine or plain code.
Func(callable, body, script) == [callable |-> callable, body |-> body, script |-> script]

Funcs ==
    {Func(c, b, s) : c \in {"function", "object"}, b \in {"gen", "asyncgen"},
                     s \in GeneratorScripts}
        \cup {Func(c, b, s) : c \in {"function", "object"}, b \in {"coroutine", "sync"},
                              s \in FunctionScripts}

\* A sync generator check that looks at the callable itself only.
is_generator_function_functions_only(func) ==
    func.callable = "function" /\ func.body = "gen"

\* util.py:38-44
is_generator_function(func) ==
    \/ func.callable = "function" /\ func.body = "gen"
    \/ func.callable = "object" /\ func.body = "gen"

\* util.py:47-53
is_async_generator_function(func) ==
    \/ func.callable = "function" /\ func.body = "asyncgen"
    \/ func.callable = "object" /\ func.body = "asyncgen"

\* A generator object as func(**kwargs) creates it: nothing of its body has
\* run.  steps counts the times it was advanced, teardown the times the code
\* after its first yield was entered.
NewGenerator(flavor, script) ==
    [flavor |-> flavor, script |-> script, state |-> "created", steps |-> 0,
     teardown |-> 0]

\* What next(generator) or generator.__anext__() gives: "yield", "stop"
\* (StopIteration, StopAsyncIteration), "raise", "interrupt" or "hang".
Outcome(g) ==
    CASE g.state = "created" ->
            IF g.script.first = "return" THEN "stop" ELSE g.script.first
      [] g.state = "suspended" /\ g.steps = 1 ->
            IF g.script.second = "return" THEN "stop" ELSE g.script.second
      [] OTHER -> "stop"

\* The generator after that step.  A step that hangs is cancelled by
\* wait_for in an async generator and keeps running in the thread of a sync
\* one.
Advanced(g) ==
    [g EXCEPT !.steps = @ + 1,
              !.teardown = IF g.state = "suspended" THEN @ + 1 ELSE @,
              !.state = CASE Outcome(g) = "yield" -> "suspended"
                          [] Outcome(g) = "hang" /\ g.flavor = "sync" -> "running"
                          [] OTHER -> "closed"]

\* The one generator object and the values of a direct use of the helpers.
GenObj == Val("generator", "func", 1)

FuncVal == Val("ret", "func", 1)

YieldVal == Val("yield", "func", 1)

NoHandle == Val("None", "", 0)

NoResult == [value |-> NoHandle, cleanup |-> NoHandle]

\* The helpers are not in use (the resolver never calls them).
UtilUnused ==
    [pc |-> "unused", func |-> Func("function", "sync", [first |-> "return", second |-> "none"]),
     res |-> NoResult, out |-> "none", raised |-> "none", warnings |-> 0]

\* The variables of the resolver.
flow == <<sig, calls, given, pc, ti, kwargs, available, cache, resolving,
          stack, exc, bound, ncalls, log, style>>

\* util.py:65-83, the second component of what invoke_and_get_cleanup returns.
cleanup_of(func, generator) ==
    IF is_async_generator_function(func) \/ is_generator_function(func)
    THEN generator
    ELSE NoHandle

\* util.py:65-83, invoke_and_get_cleanup calls func(**kwargs): a generator
\* function gives a generator object and runs nothing, every other callable
\* runs its body (awaited at lines 78 and 80 if it is a coroutine).
InvokeAndGetCleanup ==
    /\ u.pc = "start"
    /\ LET func == u.func
           generator == func.body \in {"gen", "asyncgen"}
           flavor == IF func.body = "asyncgen" THEN "async" ELSE "sync"
       IN  /\ gens' = IF generator
                      THEN Put(gens, GenObj, NewGenerator(flavor, func.script))
                      ELSE gens
           /\ u' = CASE is_async_generator_function(func) \/ is_generator_function(func) ->
                          [u EXCEPT !.pc = "first"]
                     [] generator ->
                          [u EXCEPT !.pc = "invoked",
                                    !.res = [value |-> GenObj,
                                             cleanup |-> cleanup_of(func, GenObj)]]
                     [] func.script.first = "raise" ->
                          [u EXCEPT !.pc = "raised", !.raised = "raise"]
                     [] OTHER ->
                          [u EXCEPT !.pc = "invoked",
                                    !.res = [value |-> FuncVal,
                                             cleanup |-> cleanup_of(func, GenObj)]]
    /\ UNCHANGED flow

\* util.py:67-68 and 73-74: the first step of the generator; its value and
\* the generator are returned, anything else it does is raised.
InvokeFirstStep ==
    /\ u.pc = "first"
    /\ gens' = [gens EXCEPT ![GenObj] = Advanced(@)]
    /\ u' = IF Outcome(gens[GenObj]) = "yield"
            THEN [u EXCEPT !.pc = "invoked",
                           !.res = [value |-> YieldVal,
                                    cleanup |-> cleanup_of(u.func, GenObj)]]
            ELSE [u EXCEPT !.pc = "raised", !.raised = Outcome(gens[GenObj])]
    /\ UNCHANGED flow

\* A run_sync_cleanup without its except clause: the StopIteration cannot
\* be set on the future of to_thread, which raises a TypeError instead.
run_sync_cleanup_unguarded(out) == IF out = "stop" THEN "raise" ELSE out

\* util.py:86-91, what leaves run_sync_cleanup when next(generator) gives out.
run_sync_cleanup(out) == IF out = "stop" THEN "done" ELSE out

\* util.py:99-109, what leaves the inner part of close_generator.
close_step(flavor, out) ==
    IF flavor = "async"
    THEN IF out = "stop" THEN "done" ELSE out
    ELSE run_sync_cleanup(out)

\* util.py:110-113: a timeout and an Exception are logged and swallowed.
close_handlers(left) == left \in {"hang", "raise"}

\* util.py:96-97, close_generator is entered with the handle.
CloseGeneratorEnter ==
    /\ u.pc = "invoked"
    /\ u' = IF u.res.cleanup = NoHandle
            THEN [u EXCEPT !.pc = "closed"]
            ELSE [u EXCEPT !.pc = "closing"]
    /\ UNCHANGED <<flow, gens>>

\* util.py:100-109, the generator is advanced under the timeout.
CloseGeneratorStep ==
    /\ u.pc = "closing"
    /\ gens' = [gens EXCEPT ![u.res.cleanup] = Advanced(@)]
    /\ u' = [u EXCEPT !.pc = "handling",
                      !.out = close_step(gens[u.res.cleanup].flavor,
                                         Outcome(gens[u.res.cleanup]))]
    /\ UNCHANGED flow

\* util.py:110-113, the handlers of close_generator.
CloseGeneratorHandle ==
    /\ u.pc = "handling"
    /\ u' = CASE close_handlers(u.out) ->
                    [u EXCEPT !.pc = "closed", !.warnings = @ + 1]
              [] u.out \in {"done", "yield"} ->
                    [u EXCEPT !.pc = "closed"]
              [] OTHER ->
                    [u EXCEPT !.pc = "close_raised", !.raised = u.out]
    /\ UNCHANGED <<flow, gens>>

\* invoke (spec 4.4: every callable that is no coroutine is called
\* synchronously): the body of a generator function does not run.
BodyRuns(func) == style[func] = "function"

-----------------------------------------------------------------------------------------------------------------------------------------------------
(* Frames and history.                                                     *)

\* One hatch(egg) in progress: phase "enter" before line 49, "build" inside
\* build_callable_kwargs at parameter i, "running" while invoke() awaits the
\* provider's body (execution n of it).  id numbers the hatch() calls of a
\* top-level call; by is the id of the hatch() that awaits this one, 0 for
\* the wrapper.
Frame(id, by, egg) ==
    [id |-> id, by |-> by, egg |-> egg, i |-> 1, kw |-> EmptyDict,
     phase |-> "enter", n |-> 0]

Top(c) == stack[c][Len(stack[c])]

Pop(st) == SubSeq(st, 1, Len(st) - 1)

\* Who awaits the innermost hatch() of stack st, and for which parameter.
RequesterOf(st) == IF Len(st) = 0 THEN Target ELSE st[Len(st)].egg.dependency

RequesterId(st) == IF Len(st) = 0 THEN 0 ELSE st[Len(st)].id

RequestingParam(c, st) ==
    IF Len(st) = 0 THEN sig[Target][ti[c]].name
    ELSE sig[st[Len(st)].egg.dependency][st[Len(st)].i].name

\* An entry of the history.  ev is
\*   "request": hatch(egg) is called by hatch `by` for its parameter param;
\*   "cached":  hatch id returns value from the cache;
\*   "invoke":  hatch id enters the provider's body with keyword arguments kw;
\*   "return":  the body returns value and hatch id returns it;
\*   "raise":   hatch id raises (value tells what).
Event(ev, id, by, egg, param, value, kw) ==
    [ev |-> ev, id |-> id, by |-> by, egg |-> egg, param |-> param,
     value |-> value, kw |-> kw]

Logged(c, e) == log' = [log EXCEPT ![c] = Append(@, e)]

Events(c, ev) == {k \in 1..Len(log[c]) : log[c][k].ev = ev}

-----------------------------------------------------------------------------
(* Hatcher (src/egg/hatcher.py).                                           *)

\* An is_circular_dependency that never finds the provider in resolving.
is_circular_dependency_never(c, dep_func) == FALSE

\* An is_circular_dependency over a resolving set that all Hatchers share.
is_circular_dependency_shared(c, dep_func) ==
    \E d \in CallIds : dep_func \in resolving[d]

is_circular_dependency(c, dep_func) == dep_func \in resolving[c]

is_cached(c, egg) == egg.use_cache /\ egg.dependency \in DOMAIN cache[c]

\* A maybe_add_to_cache that lost its assignment.
maybe_add_to_cache_dropped(c, egg, value) == cache[c]

\* A maybe_add_to_cache that does not look at use_cache.
maybe_add_to_cache_always(c, egg, value) == Put(cache[c], egg.dependency, value)

\* The cache after maybe_add_to_cache(egg, value).
maybe_add_to_cache(c, egg, value) ==
    IF egg.use_cache THEN Put(cache[c], egg.dependency, value) ELSE cache[c]

\* A build_callable_kwargs that keeps the hatched value to itself (no
\* self.available[name] = value).
Deliver_unpublished(c, st, value) ==
    LET name == RequestingParam(c, st)
    IN  IF Len(st) = 0
        THEN /\ kwargs' = [kwargs EXCEPT ![c] = Put(@, name, value)]
             /\ ti' = [ti EXCEPT ![c] = @ + 1]
             /\ stack' = [stack EXCEPT ![c] = st]
             /\ UNCHANGED available
        ELSE /\ stack' = [stack EXCEPT ![c] =
                   [st EXCEPT ![Len(st)] =
                       [@ EXCEPT !.kw = Put(@, name, value), !.i = @ + 1]]]
             /\ UNCHANGED <<kwargs, ti, available>>

\* hatch() hands value to the caller awaiting it, st being the stack without
\* the hatch() that returns: the wrapper (st empty) does kwargs[name] = value;
\* build_callable_kwargs does kwargs[name] = value and
\* self.available[name] = value, and goes on to its next parameter.
Deliver(c, st, value) ==
    LET name == RequestingParam(c, st)
    IN  IF Len(st) = 0
        THEN /\ kwargs' = [kwargs EXCEPT ![c] = Put(@, name, value)]
             /\ ti' = [ti EXCEPT ![c] = @ + 1]
             /\ stack' = [stack EXCEPT ![c] = st]
             /\ UNCHANGED available
        ELSE /\ stack' = [stack EXCEPT ![c] =
                   [st EXCEPT ![Len(st)] =
                       [@ EXCEPT !.kw = Put(@, name, value), !.i = @ + 1]]]
             /\ available' = [available EXCEPT ![c] = Put(@, name, value)]
             /\ UNCHANGED <<kwargs, ti>>

\* await hatcher.hatch(eggs) / await self.hatch(eggs): the call itself.
CallHatch(c, egg) ==
    LET id == Cardinality(Events(c, "request")) + 1
        by == RequesterId(stack[c])
    IN  /\ Logged(c, Event("request", id, by, egg, RequestingParam(c, stack[c]),
                           Val("none", "", 0), EmptyDict))
        /\ stack' = [stack EXCEPT ![c] = Append(@, Frame(id, by, egg))]

\* hatcher.py:47-55, hatch() up to its try.
Hatch(c) ==
    /\ stack[c] # << >>
    /\ exc[c] = NoExc
    /\ Top(c).phase = "enter"
    /\ LET egg == Top(c).egg
           dep_func == egg.dependency
           st == Pop(stack[c])
           ev(what, value) ==
               Event(what, Top(c).id, Top(c).by, egg, RequestingParam(c, st),
                     value, EmptyDict)
       IN  IF is_circular_dependency(c, dep_func)
           THEN /\ exc' = [exc EXCEPT ![c] = Raised("circular", dep_func)]
                /\ stack' = [stack EXCEPT ![c] = st]
                /\ Logged(c, ev("raise", Val("circular", dep_func, 0)))
                /\ UNCHANGED <<resolving, kwargs, ti, available>>
           ELSE IF is_cached(c, egg)
           THEN /\ Deliver(c, st, cache[c][dep_func])
                /\ Logged(c, ev("cached", cache[c][dep_func]))
                /\ UNCHANGED <<resolving, exc>>
           ELSE /\ resolving' = [resolving EXCEPT ![c] = @ \cup {dep_func}]
                /\ stack' = [stack EXCEPT ![c] =
                      [@ EXCEPT ![Len(@)] = [@ EXCEPT !.phase = "build"]]]
                /\ UNCHANGED <<exc, kwargs, ti, available, log>>
    /\ UNCHANGED <<style, gens, u, sig, calls, given, pc, cache, bound, ncalls>>

\* A build_callable_kwargs that looks into available before it looks for a
\* marker.
BuildChoice_available_first(c, param) ==
    IF param.name \in {"self", "cls"} THEN "skip"
    ELSE IF param.name \in DOMAIN available[c] THEN "available"
    ELSE IF find_egg(param) # None THEN "hatch"
    ELSE IF param.default = Empty THEN "missing"
    ELSE "default"

\* A build_callable_kwargs without its raise.
BuildChoice_no_raise(c, param) ==
    IF param.name \in {"self", "cls"} THEN "skip"
    ELSE IF find_egg(param) # None THEN "hatch"
    ELSE IF param.name \in DOMAIN available[c] THEN "available"
    ELSE "default"

\* A build_callable_kwargs that lets a parameter's own default win over the
\* value in available.
BuildChoice_default_first(c, param) ==
    IF param.name \in {"self", "cls"} THEN "skip"
    ELSE IF find_egg(param) # None THEN "hatch"
    ELSE IF param.default # Empty THEN "default"
    ELSE IF param.name \in DOMAIN available[c] THEN "available"
    ELSE "missing"

\* hatcher.py:70-90, what build_callable_kwargs does with one parameter.
BuildChoice(c, param) ==
    IF param.name \in {"self", "cls"} THEN "skip"
    ELSE IF find_egg(param) # None THEN "hatch"
    ELSE IF param.name \in DOMAIN available[c] THEN "available"
    ELSE IF param.default = Empty THEN "missing"
    ELSE "default"

\* hatcher.py:69-90, one turn of the loop of build_callable_kwargs.
BuildParam(c) ==
    /\ stack[c] # << >>
    /\ exc[c] = NoExc
    /\ Top(c).phase = "build"
    /\ Top(c).i <= Len(sig[Top(c).egg.dependency])
    /\ LET param == sig[Top(c).egg.dependency][Top(c).i]
           name == param.name
           choice == BuildChoice(c, param)
           next(f) == [stack EXCEPT ![c] = [@ EXCEPT ![Len(@)] = f]]
       IN  CASE choice = "hatch" ->
                  /\ CallHatch(c, find_egg(param))
                  /\ UNCHANGED exc
             [] choice = "available" ->
                  /\ stack' = next([Top(c) EXCEPT !.kw = Put(@, name, available[c][name]),
                                                  !.i = @ + 1])
                  /\ UNCHANGED <<exc, log>>
             [] choice = "missing" ->
                  /\ exc' = [exc EXCEPT ![c] = Raised("missing", name)]
                  /\ Logged(c, Event("raise", Top(c).id, Top(c).by, Top(c).egg, name,
                                     Val("missing", name, 0), Top(c).kw))
                  /\ UNCHANGED stack
             [] OTHER ->
                  /\ stack' = next([Top(c) EXCEPT !.i = @ + 1])
                  /\ UNCHANGED <<exc, log>>
    /\ UNCHANGED <<style, gens, u, sig, calls, given, pc, ti, kwargs, available, cache, resolving,
                   bound, ncalls>>

\* The required parameters of func that a call with keyword arguments kw
\* leaves without a value.
Unbound(func, kw) ==
    {i \in 1..Len(sig[func]) :
        sig[func][i].name \notin DOMAIN kw /\ sig[func][i].default = Empty}

First(S) == CHOOSE i \in S : \A j \in S : i <= j

\* hatcher.py:58, invoke(dep_func, kwargs): the call binds kwargs to the
\* provider's parameters (a TypeError when a required one is left out) and
\* enters the provider's body.
InvokeBegin(c) ==
    /\ stack[c] # << >>
    /\ exc[c] = NoExc
    /\ Top(c).phase = "build"
    /\ Top(c).i > Len(sig[Top(c).egg.dependency])
    /\ LET func == Top(c).egg.dependency
           missing == Unbound(func, Top(c).kw)
           ev(what, param, value) ==
               Event(what, Top(c).id, Top(c).by, Top(c).egg, param, value, Top(c).kw)
       IN  IF missing # {}
           THEN /\ exc' = [exc EXCEPT ![c] = Raised("type", sig[func][First(missing)].name)]
                /\ Logged(c, ev("raise", sig[func][First(missing)].name,
                                Val("type", sig[func][First(missing)].name, 0)))
                /\ UNCHANGED <<stack, ncalls>>
           ELSE /\ ncalls' = [ncalls EXCEPT ![func] = @ + 1]
                /\ stack' = [stack EXCEPT ![c] = [@ EXCEPT ![Len(@)] =
                      [@ EXCEPT !.phase = "running", !.n = ncalls[func] + 1]]]
                /\ Logged(c, ev("invoke", "", ReturnVal(func, ncalls[func] + 1)))
                /\ UNCHANGED exc
    /\ UNCHANGED <<style, gens, u, sig, calls, given, pc, ti, kwargs, available, cache, resolving, bound>>

\* hatcher.py:58-62, the provider returns: the result is cached if the egg
\* says so, the provider leaves resolving, and hatch() returns the result.
ProviderReturn(c) ==
    /\ stack[c] # << >>
    /\ exc[c] = NoExc
    /\ Top(c).phase = "running"
    /\ LET egg == Top(c).egg
           result == ReturnVal(egg.dependency, Top(c).n)
           st == Pop(stack[c])
       IN  /\ cache' = [cache EXCEPT ![c] = maybe_add_to_cache(c, egg, result)]
           /\ resolving' = [resolving EXCEPT ![c] = @ \ {egg.dependency}]
           /\ Deliver(c, st, result)
           /\ Logged(c, Event("return", Top(c).id, Top(c).by, egg,
                              RequestingParam(c, st), result, Top(c).kw))
           /\ gens' = IF BodyRuns(egg.dependency) THEN gens
                      ELSE Put(gens, result, NewGenerator("sync", OneYield))
    /\ UNCHANGED <<style, u, sig, calls, given, pc, exc, bound, ncalls>>

\* hatcher.py:58, the provider's body raises.
ProviderRaise(c) ==
    /\ stack[c] # << >>
    /\ exc[c] = NoExc
    /\ Top(c).phase = "running"
    /\ BodyRuns(Top(c).egg.dependency)
    /\ exc' = [exc EXCEPT ![c] = Raised("provider", Top(c).egg.dependency)]
    /\ Logged(c, Event("raise", Top(c).id, Top(c).by, Top(c).egg, "",
                       Val("provider", Top(c).egg.dependency, 0), Top(c).kw))
    /\ UNCHANGED <<style, gens, u, sig, calls, given, pc, ti, kwargs, available, cache, resolving,
                   stack, bound, ncalls>>

\* A hatch() whose finally clause is missing: the exception leaves it and
\* the provider stays in resolving.
Propagate_without_discard(c) ==
    /\ stack[c] # << >>
    /\ exc[c] # NoExc
    /\ stack' = [stack EXCEPT ![c] = Pop(@)]
    /\ UNCHANGED <<style, gens, u, sig, calls, given, pc, ti, kwargs, available, cache, exc,
                   bound, ncalls, log, resolving>>

\* hatcher.py:61-62, an exception leaves a hatch() through its finally.
Propagate(c) ==
    /\ stack[c] # << >>
    /\ exc[c] # NoExc
    /\ resolving' = [resolving EXCEPT ![c] = @ \ {Top(c).egg.dependency}]
    /\ stack' = [stack EXCEPT ![c] = Pop(@)]
    /\ UNCHANGED <<style, gens, u, sig, calls, given, pc, ti, kwargs, available, cache, exc,
                   bound, ncalls, log>>

-----------------------------------------------------------------------------
(* hatch_eggs (src/egg/decorator.py).                                      *)

\* decorator.py:38-40, a call of the decorated function: the wrapper builds
\* available from the arguments and constructs the Hatcher around it.
AsyncWrapperEnter(c) ==
    /\ c \in calls
    /\ pc[c] = "idle"
    /\ available' = [available EXCEPT ![c] =
          build_available_values_from_args_kwargs(given[c].args, given[c].kwargs,
                                                  param_names(Target))]
    /\ kwargs' = [kwargs EXCEPT ![c] = given[c].kwargs]
    /\ cache' = [cache EXCEPT ![c] = EmptyDict]
    /\ resolving' = [resolving EXCEPT ![c] = {}]
    /\ ti' = [ti EXCEPT ![c] = 1]
    /\ pc' = [pc EXCEPT ![c] = "loop"]
    /\ UNCHANGED <<style, gens, u, sig, calls, given, stack, exc, bound, ncalls, log>>

\* A check that forgets the positional arguments (only `name in kwargs`).
Supplied_kwargs_only(c, name) == name \in DOMAIN kwargs[c]

\* decorator.py:43, the wrapper leaves this parameter alone.
Supplied(c, name) == name \in DOMAIN kwargs[c] \/ name \in DOMAIN available[c]

\* decorator.py:42-51, one turn of the wrapper's loop, up to its await.
WrapperParam(c) ==
    /\ pc[c] = "loop"
    /\ stack[c] = << >>
    /\ exc[c] = NoExc
    /\ ti[c] <= Len(sig[Target])
    /\ LET param == sig[Target][ti[c]]
           eggs == find_egg(param)
       IN  IF Supplied(c, param.name) \/ eggs = None
           THEN /\ ti' = [ti EXCEPT ![c] = @ + 1]
                /\ UNCHANGED <<stack, log>>
           ELSE /\ CallHatch(c, eggs)
                /\ UNCHANGED ti
    /\ UNCHANGED <<style, gens, u, sig, calls, given, pc, kwargs, available, cache, resolving, exc,
                   bound, ncalls>>

\* decorator.py:52-53, the wrapper catches what hatch() raised.
WrapperCatch(c) ==
    /\ pc[c] = "loop"
    /\ stack[c] = << >>
    /\ exc[c] # NoExc
    /\ exc' = [exc EXCEPT ![c] = Wrapped(sig[Target][ti[c]].name, exc[c])]
    /\ pc' = [pc EXCEPT ![c] = "failed"]
    /\ UNCHANGED <<style, gens, u, sig, calls, given, ti, kwargs, available, cache, resolving, stack,
                   bound, ncalls, log>>

\* The value func(*args, **kw) binds to its parameter i.
Bind(func, args, kw, i) ==
    LET param == sig[func][i]
    IN  IF i <= Len(args) THEN args[i]
        ELSE IF param.name \in DOMAIN kw THEN kw[param.name]
        ELSE IF is_egg(param.default) THEN EggVal(param.default.egg)
        ELSE DefaultVal(func, param.name)

\* decorator.py:55-57, func(*args, **kwargs): a TypeError when a required
\* parameter is left without a value.
WrapperInvoke(c) ==
    /\ pc[c] = "loop"
    /\ stack[c] = << >>
    /\ exc[c] = NoExc
    /\ ti[c] > Len(sig[Target])
    /\ LET missing == {i \in Unbound(Target, kwargs[c]) : i > Len(given[c].args)}
       IN  IF missing # {}
           THEN /\ exc' = [exc EXCEPT ![c] = Raised("type", sig[Target][First(missing)].name)]
                /\ pc' = [pc EXCEPT ![c] = "failed"]
                /\ UNCHANGED bound
           ELSE /\ bound' = [bound EXCEPT ![c] =
                      [x \in {sig[Target][i].name : i \in 1..Len(sig[Target])} |->
                          Bind(Target, given[c].args, kwargs[c],
                               CHOOSE i \in 1..Len(sig[Target]) : sig[Target][i].name = x)]]
                /\ pc' = [pc EXCEPT ![c] = "done"]
                /\ UNCHANGED exc
    /\ UNCHANGED <<style, gens, u, sig, calls, given, ti, kwargs, available, cache, resolving, stack,
                   ncalls, log>>

-----------------------------------------------------------------------------
(* The specification.                                                      *)

Init ==
    /\ \E t \in TargetSigs \cap Within[MaxEggs, MaxPlain] :
       \E p \in Within[MaxEggs - EggCount(t), MaxPlain - PlainCount(t)] :
       \E q \in Within[MaxEggs - EggCount(t) - EggCount(p),
                       MaxPlain - PlainCount(t) - PlainCount(p)] :
          /\ IsGraph(Graph(t, p, q))
          /\ sig = Graph(t, p, q)
    /\ calls = {1}
    /\ \E g \in {x \in GivenFor(1, sig[Target]) : ValidGiven(sig[Target], x)} :
          given = [c \in CallIds |-> IF c \in calls THEN g ELSE NoGiven]
    /\ pc = [c \in CallIds |-> "idle"]
    /\ ti = [c \in CallIds |-> 1]
    /\ kwargs = [c \in CallIds |-> EmptyDict]
    /\ available = [c \in CallIds |-> EmptyDict]
    /\ cache = [c \in CallIds |-> EmptyDict]
    /\ resolving = [c \in CallIds |-> {}]
    /\ stack = [c \in CallIds |-> << >>]
    /\ exc = [c \in CallIds |-> NoExc]
    /\ bound = [c \in CallIds |-> EmptyDict]
    /\ ncalls = [f \in Providers |-> 0]
    /\ log = [c \in CallIds |-> << >>]
    /\ style = [f \in Providers |-> "function"]
    /\ gens = EmptyDict
    /\ u = UtilUnused

Next ==
    \E c \in CallIds :
        \/ AsyncWrapperEnter(c)
        \/ WrapperParam(c)
        \/ WrapperCatch(c)
        \/ WrapperInvoke(c)
        \/ Hatch(c)
        \/ BuildParam(c)
        \/ InvokeBegin(c)
        \/ ProviderReturn(c)
        \/ ProviderRaise(c)
        \/ Propagate(c)

Spec == Init /\ [][Next]_vars

-----------------------------------------------------------------------------
(* What the history tells about one provider in one top-level call.        *)

\* The hatch() calls for provider p.
RequestsFor(c, p) == {k \in Events(c, "request") : log[c][k].egg.dependency = p}

\* The executions of p's body.
InvokesOf(c, p) == {k \in Events(c, "invoke") : log[c][k].egg.dependency = p}

\* The hatch() calls for p that returned a value to their requester.
Answers(c, p) ==
    {k \in 1..Len(log[c]) :
        log[c][k].ev \in {"return", "cached"} /\ log[c][k].egg.dependency = p}

CachedOnly(c, p) == \A k \in RequestsFor(c, p) : log[c][k].egg.use_cache

NoCacheOnly(c, p) == \A k \in RequestsFor(c, p) : ~log[c][k].egg.use_cache

-----------------------------------------------------------------------------
(* C1: within one top-level call, a provider requested only through        *)
(* markers with use_cache=true is invoked at most once, and exactly once   *)
(* as soon as a request for it is answered; every requester, a target      *)
(* parameter or a nested provider parameter, receives the value that       *)
(* single invocation returned.                                             *)
C1_CachedProviderInvokedOnce ==
    \A c \in CallIds, p \in Providers :
        (RequestsFor(c, p) # {} /\ CachedOnly(c, p)) =>
            /\ Cardinality(InvokesOf(c, p)) <= 1
            /\ \A k \in Answers(c, p) :
                  /\ \E j \in InvokesOf(c, p) :
                        j < k /\ log[c][k].value = log[c][j].value
                  /\ log[c][k].by = 0 => kwargs[c][log[c][k].param] = log[c][k].value

\* A finished call in which a cached provider answered a target parameter
\* and a nested provider parameter.
C1_Witness ==
    \E c \in CallIds, p \in Providers :
        /\ pc[c] = "done"
        /\ CachedOnly(c, p)
        /\ \E k1, k2 \in Answers(c, p) : log[c][k1].by = 0 /\ log[c][k2].by # 0

(* C2: a request through a marker with use_cache=false always runs the     *)
(* provider again: the value it receives is the one returned by an         *)
(* execution made for this very request.  A provider requested only        *)
(* through such markers is never in the cache, and a call that completes   *)
(* has invoked it once per request.                                        *)
C2_NoCacheInvokesAgain ==
    \A c \in CallIds, p \in Providers :
        /\ \A k \in Answers(c, p) :
              ~log[c][k].egg.use_cache =>
                  /\ log[c][k].ev = "return"
                  /\ \E j \in InvokesOf(c, p) :
                        /\ log[c][j].id = log[c][k].id
                        /\ log[c][j].value = log[c][k].value
                  /\ \A j \in Answers(c, p) : j < k => log[c][j].value # log[c][k].value
        /\ (RequestsFor(c, p) # {} /\ NoCacheOnly(c, p)) =>
              /\ p \notin DOMAIN cache[c]
              /\ pc[c] = "done" =>
                    Cardinality(InvokesOf(c, p)) = Cardinality(RequestsFor(c, p))

\* A finished call that requested a provider twice, both times uncached.
C2_Witness ==
    \E c \in CallIds, p \in Providers :
        /\ pc[c] = "done"
        /\ NoCacheOnly(c, p)
        /\ Cardinality(RequestsFor(c, p)) >= 2
        /\ Cardinality(InvokesOf(c, p)) >= 2

-----------------------------------------------------------------------------
(* Cycles of the declaration graph.                                        *)

\* The providers the markers of p's parameters lead to, in one or more steps.
Below(p) == ReachableFrom(sig, Deps(sig[p]))

OnCycle(p) == p \in Below(p)

\* A cycle can be reached from a marker that wraps p.
CycleFrom(p) == \E x \in {p} \cup Below(p) : OnCycle(x)

\* The last hatch() the wrapper called.
LastTopRequest(c) ==
    LET ks == {k \in Events(c, "request") : log[c][k].by = 0}
    IN  CHOOSE k \in ks : \A j \in ks : j <= k

HatchFailed(c) == pc[c] = "failed" /\ exc[c].kind = "hatching"

\* The event the last step of call c added to its history.  The history
\* only grows, one event at a time, so what holds of the last event in every
\* reachable state holds of every event.
LastEvent(c) == log[c][Len(log[c])]

\* The provider whose body is running.
Running(c) == stack[c] # << >> /\ Top(c).phase = "running"

\* hatch() has just returned a value.
Answered(c) == log[c] # << >> /\ LastEvent(c).ev \in {"return", "cached"}

(* C3 as claimed: hatching a marker from which a cycle can be reached ends *)
(* with the circular-dependency error, which names a provider on the       *)
(* cycle; no provider on a cycle is invoked; there are never more than     *)
(* (number of providers) + 1 hatch() calls in progress.                    *)
C3_Original ==
    \A c \in CallIds :
        /\ Len(stack[c]) <= Cardinality(Providers) + 1
        /\ Running(c) => ~OnCycle(Top(c).egg.dependency)
        /\ (HatchFailed(c) /\ CycleFrom(log[c][LastTopRequest(c)].egg.dependency)) =>
              /\ exc[c].origin.kind = "circular"
              /\ OnCycle(exc[c].origin.subject)

(* C3, amended: hatching a marker from which a cycle can be reached never  *)
(* returns a value: it fails, with the circular-dependency error naming a  *)
(* provider on the cycle unless a parameter reached earlier fails first    *)
(* (a missing dependency, a call that lacks an argument, or the error of a *)
(* provider that is on no cycle).  No provider on a cycle is invoked and   *)
(* there are never more than (number of providers) + 1 hatch() calls in    *)
(* progress.                                                               *)
C3_CycleFailsBounded ==
    \A c \in CallIds :
        /\ Len(stack[c]) <= Cardinality(Providers) + 1
        /\ Running(c) => ~OnCycle(Top(c).egg.dependency)
        /\ Answered(c) => ~CycleFrom(LastEvent(c).egg.dependency)
        /\ exc[c].origin.kind = "circular" => OnCycle(exc[c].origin.subject)
        /\ (HatchFailed(c) /\ CycleFrom(log[c][LastTopRequest(c)].egg.dependency)) =>
              /\ exc[c].origin.kind \in {"circular", "missing", "type", "provider"}
              /\ exc[c].origin.kind = "provider" => ~OnCycle(exc[c].origin.subject)

\* A call that failed on a cycle through two providers, found by the third
\* nested hatch(), the markers being cached ones.
C3_Witness ==
    \E c \in CallIds :
        /\ HatchFailed(c)
        /\ exc[c].origin.kind = "circular"
        /\ \E k \in Events(c, "raise") :
              log[c][k].id = 3 /\ log[c][k].by = 2 /\ log[c][k].egg.use_cache

-----------------------------------------------------------------------------
\* What the caller passed, positionally or by keyword.
CallerSupplied(c) ==
    DOMAIN build_available_values_from_args_kwargs(given[c].args, given[c].kwargs,
                                                   param_names(Target))

TargetParams == {i \in 1..Len(sig[Target]) : TRUE}

(* C4: a target parameter that declares a marker and for which the caller  *)
(* passed an argument, positionally or by keyword, is never hatched by the *)
(* decorator, and the target is invoked with the caller's value for it.    *)
C4_ExplicitArgumentWins ==
    \A c \in CallIds : \A i \in TargetParams :
        LET param == sig[Target][i]
        IN  (pc[c] # "idle" /\ find_egg(param) # None /\ param.name \in CallerSupplied(c)) =>
                /\ \A k \in Events(c, "request") :
                      ~(log[c][k].by = 0 /\ log[c][k].param = param.name)
                /\ param.name \in DOMAIN kwargs[c] => kwargs[c][param.name] = CallerVal(c, param.name)
                /\ pc[c] = "done" => bound[c][param.name] = CallerVal(c, param.name)

\* The target was invoked after a call that passed one marker parameter
\* positionally and another by keyword.
C4_Witness ==
    \E c \in CallIds :
        /\ pc[c] = "done"
        /\ Len(given[c].args) = 1
        /\ DOMAIN given[c].kwargs # {}
        /\ \A i \in TargetParams : find_egg(sig[Target][i]) # None

-----------------------------------------------------------------------------
\* The parameters of func for which build_callable_kwargs hatches a marker.
MarkerParams(func) ==
    {i \in 1..Len(sig[func]) :
        sig[func][i].name \notin {"self", "cls"} /\ find_egg(sig[func][i]) # None}

\* Hatch h asked for its parameter i at r, and got the answer at a.
HatchedAt(c, h, func, i, r, a) ==
    /\ r < a
    /\ log[c][r].ev = "request" /\ log[c][a].ev \in {"return", "cached"}
    /\ log[c][r].id = log[c][a].id
    /\ log[c][r].by = h /\ log[c][a].by = h
    /\ log[c][r].param = sig[func][i].name /\ log[c][a].param = sig[func][i].name
    /\ log[c][a].egg = find_egg(sig[func][i])

(* C5: resolution is depth-first and sequential.  When a provider's body   *)
(* is entered, every marker of its parameters has been hatched to          *)
(* completion, one after the other in declaration order, and the body gets *)
(* for each the value that hatch returned, which is a value the nested     *)
(* provider's body returned.  Nothing else of the call happens while a     *)
(* body runs: it is the innermost frame and the next event is its return   *)
(* or its raise.                                                           *)
C5_DepthFirstSequential ==
    \A c \in CallIds :
        /\ \A k \in Events(c, "invoke") :
              LET func == log[c][k].egg.dependency
                  h == log[c][k].id
              IN  /\ \A i \in MarkerParams(func) :
                        \E r, a \in 1..(k - 1) :
                            /\ HatchedAt(c, h, func, i, r, a)
                            /\ sig[func][i].name \in DOMAIN log[c][k].kw
                            /\ log[c][k].kw[sig[func][i].name] = log[c][a].value
                            /\ \E m \in InvokesOf(c, log[c][a].egg.dependency) :
                                  m < a /\ log[c][m].value = log[c][a].value
                            /\ \A j \in MarkerParams(func) :
                                  j > i => \E r2, a2 \in (a + 1)..(k - 1) :
                                              HatchedAt(c, h, func, j, r2, a2)
                  /\ k < Len(log[c]) =>
                        /\ log[c][k + 1].ev \in {"return", "raise"}
                        /\ log[c][k + 1].id = h
        /\ \A i \in 1..Len(stack[c]) :
              stack[c][i].phase = "running" => i = Len(stack[c])

\* A finished call in which a provider with two marker parameters ran.
C5_Witness ==
    \E c \in CallIds :
        /\ pc[c] = "done"
        /\ \E k \in Events(c, "invoke") :
              Cardinality(MarkerParams(log[c][k].egg.dependency)) = 2

-----------------------------------------------------------------------------
\* build_callable_kwargs of the innermost hatch() is at a parameter.
AtParam(c) ==
    /\ stack[c] # << >>
    /\ exc[c] = NoExc
    /\ Top(c).phase = "build"
    /\ Top(c).i <= Len(sig[Top(c).egg.dependency])

CurParam(c) == sig[Top(c).egg.dependency][Top(c).i]

\* No marker, no entry in available, no default.
NoSource(c, param) ==
    /\ find_egg(param) = None
    /\ param.name \notin DOMAIN available[c]
    /\ param.default = Empty

\* Call c takes a step.
Steps(c) == <<stack[c], exc[c], pc[c], log[c]>>' # <<stack[c], exc[c], pc[c], log[c]>>

\* A hatch() that raised the missing-dependency error never enters its
\* provider's body.
MissingNeverInvoked ==
    \A c \in CallIds : \A k \in Events(c, "raise") :
        log[c][k].value.tag = "missing" =>
            \A j \in Events(c, "invoke") : log[c][j].id # log[c][k].id

\* The step taken at a parameter without a source raises the error that
\* names it, and invokes nothing.
RaisesMissing(c) ==
    /\ exc'[c] = Raised("missing", CurParam(c).name)
    /\ ncalls' = ncalls
    /\ stack'[c] = stack[c]

(* C6 as claimed: when a provider has a parameter that declares no marker, *)
(* has no entry in available under its name and no default, hatching the   *)
(* provider fails there with the missing-dependency error that names the   *)
(* parameter, and the provider is not invoked.                             *)
C6_Original ==
    /\ []MissingNeverInvoked
    /\ [][\A c \in CallIds :
            (AtParam(c) /\ NoSource(c, CurParam(c)) /\ Steps(c)) => RaisesMissing(c)]_vars

(* C6, amended: the same for every parameter that is not named self or     *)
(* cls.  When build_callable_kwargs comes to a parameter, not named self   *)
(* or cls, that declares no marker, has no entry in available under its    *)
(* name and no default, the hatch fails there with the missing-dependency  *)
(* error that names the parameter, and the provider is not invoked.        *)
C6_MissingDependency ==
    /\ []MissingNeverInvoked
    /\ [][\A c \in CallIds :
            (/\ AtParam(c)
             /\ NoSource(c, CurParam(c))
             /\ CurParam(c).name \notin {"self", "cls"}
             /\ Steps(c)) => RaisesMissing(c)]_vars

\* The error was raised for the second parameter of a provider whose first
\* one was hatched, and the provider's body never ran.
C6_Witness ==
    \E c \in CallIds :
        /\ stack[c] # << >>
        /\ exc[c] = Raised("missing", "b")
        /\ Top(c).i = 2
        /\ DOMAIN Top(c).kw = {"a"}
        /\ ncalls[Top(c).egg.dependency] = 0

-----------------------------------------------------------------------------
(* C7: a provider parameter that declares no marker and whose name is that *)
(* of a target parameter the caller supplied is passed the caller's value, *)
(* whatever was resolved earlier in the call.                              *)
C7_CallerValueReachesProviders ==
    \A c \in CallIds : \A k \in Events(c, "invoke") :
        LET func == log[c][k].egg.dependency
        IN  \A i \in 1..Len(sig[func]) :
                LET param == sig[func][i]
                IN  (/\ find_egg(param) = None
                     /\ param.name \notin {"self", "cls"}
                     /\ param.name \in CallerSupplied(c)) =>
                        /\ param.name \in DOMAIN log[c][k].kw
                        /\ log[c][k].kw[param.name] = CallerVal(c, param.name)

-----------------------------------------------------------------------------
\* func(*args, **kwargs) of decorator.py:57 has been evaluated: the target
\* ran, or the call itself raised the TypeError.
TargetCalled(c) ==
    \/ pc[c] = "done"
    \/ pc[c] = "failed" /\ exc[c].kind = "type" /\ exc[c].wraps = 0

(* C8: when the target is invoked, every target parameter that declares a  *)
(* marker and was not supplied by the caller is passed the value obtained  *)
(* by hatching its own marker.                                             *)
C8_EveryMarkerHatched ==
    \A c \in CallIds : TargetCalled(c) =>
        \A i \in TargetParams :
            LET param == sig[Target][i]
            IN  (find_egg(param) # None /\ param.name \notin CallerSupplied(c)) =>
                    /\ param.name \in DOMAIN kwargs[c]
                    /\ \E a \in Events(c, "return") \cup Events(c, "cached") :
                          /\ log[c][a].by = 0
                          /\ log[c][a].param = param.name
                          /\ log[c][a].egg = find_egg(param)
                          /\ log[c][a].value = kwargs[c][param.name]

-----------------------------------------------------------------------------
FirstRequestFor(c, p) == CHOOSE k \in RequestsFor(c, p) : \A j \in RequestsFor(c, p) : k <= j

(* C9: when markers with different use_cache flags wrap the same provider, *)
(* the flag of the marker met first governs: if it is true, every later    *)
(* request for the provider in the call gets the cached result and the     *)
(* provider is not invoked again.                                          *)
C9_FirstMarkerGoverns ==
    \A c \in CallIds : \A p \in Providers :
        (RequestsFor(c, p) # {} /\ log[c][FirstRequestFor(c, p)].egg.use_cache) =>
            /\ Cardinality(InvokesOf(c, p)) <= 1
            /\ \A k1, k2 \in Answers(c, p) : log[c][k1].value = log[c][k2].value

-----------------------------------------------------------------------------
\* The error a raise event of the history stands for.
RaisedAt(c, k) == Raised(log[c][k].value.tag, log[c][k].value.who)

-----------------------------------------------------------------------------
\* The providers of the hatch() calls of call c that are past line 55 of
\* hatcher.py (inside the try), innermost last.
InProgress(c) ==
    {stack[c][i].egg.dependency :
        i \in {j \in 1..Len(stack[c]) : stack[c][j].phase # "enter"}}

(* C14: in every reachable state resolving is exactly the set of providers *)
(* whose hatch is in progress on the call stack (added before the kwargs   *)
(* are built, removed on every way out), no provider is in progress twice, *)
(* and resolving is empty whenever no hatch is in progress: when the       *)
(* top-level resolution starts and when it ends, in success or in failure. *)
C14_ResolvingIsTheStack ==
    \A c \in CallIds :
        /\ resolving[c] = InProgress(c)
        /\ \A i, j \in 1..Len(stack[c]) :
              (i # j /\ stack[c][i].phase # "enter" /\ stack[c][j].phase # "enter")
                  => stack[c][i].egg.dependency # stack[c][j].egg.dependency
        /\ stack[c] = << >> => resolving[c] = {}
        /\ pc[c] \in {"idle", "done", "failed"} => resolving[c] = {}

\* A call that failed two hatch() calls deep has emptied resolving again.
C14_Witness ==
    \E c \in CallIds :
        /\ HatchFailed(c)
        /\ resolving[c] = {}
        /\ \E k \in Events(c, "raise") : log[c][k].by # 0 /\ log[c][k].value.tag # "circular"
        /\ \E k \in Events(c, "return") : log[c][k].by = 0

-----------------------------------------------------------------------------
\* The values build_callable_kwargs hatched for a parameter called name.
Published(c, name) ==
    {k \in 1..Len(log[c]) :
        /\ log[c][k].ev \in {"return", "cached"}
        /\ log[c][k].by # 0
        /\ log[c][k].param = name}

Latest(S) == CHOOSE k \in S : \A j \in S : j <= k

\* build_callable_kwargs is at a marker-less parameter whose name is in
\* available.
AtAvailable(c) ==
    /\ AtParam(c)
    /\ find_egg(CurParam(c)) = None
    /\ CurParam(c).name \notin {"self", "cls"}
    /\ CurParam(c).name \in DOMAIN available[c]

\* The step at that parameter passes the available value and raises nothing.
TakesAvailable(c) ==
    /\ exc'[c] = NoExc
    /\ Len(stack'[c]) = Len(stack[c])
    /\ CurParam(c).name \in DOMAIN stack'[c][Len(stack[c])].kw
    /\ stack'[c][Len(stack[c])].kw[CurParam(c).name] = available[c][CurParam(c).name]

(* C15 as claimed: whenever a marker is hatched during a top-level call,   *)
(* the resolved value is published in available under the name of the     *)
(* parameter that declared it.                                             *)
C15_Original ==
    \A c \in CallIds :
        Answered(c) =>
            /\ LastEvent(c).param \in DOMAIN available[c]
            /\ available[c][LastEvent(c).param] = LastEvent(c).value

(* C15, amended: whenever build_callable_kwargs hatches the marker of a    *)
(* provider parameter, the resolved value is published in available under  *)
(* the parameter's name, replacing what was there, so that a provider      *)
(* resolved later in the call with a marker-less parameter of that name    *)
(* (not self or cls) receives the value last published under the name      *)
(* instead of failing with a missing-dependency error.  The values the     *)
(* decorator hatches for the target's own parameters are not published.    *)
C15_PublishedByName ==
    /\ [](\A c \in CallIds :
            /\ (Answered(c) /\ LastEvent(c).by # 0) =>
                  /\ LastEvent(c).param \in DOMAIN available[c]
                  /\ available[c][LastEvent(c).param] = LastEvent(c).value
            /\ \A name \in DOMAIN available[c] :
                  available[c][name] =
                      IF Published(c, name) = {} THEN CallerVal(c, name)
                      ELSE log[c][Latest(Published(c, name))].value)
    /\ [][\A c \in CallIds : (AtAvailable(c) /\ Steps(c)) => TakesAvailable(c)]_vars

\* A provider's body runs with a marker-less parameter set to the value an
\* earlier provider returned.
C15_Witness ==
    \E c \in CallIds :
        /\ Running(c)
        /\ \E i \in 1..Len(sig[Top(c).egg.dependency]) :
              LET param == sig[Top(c).egg.dependency][i]
              IN  /\ find_egg(param) = None
                  /\ param.name \in DOMAIN Top(c).kw
                  /\ Top(c).kw[param.name].tag = "ret"

-----------------------------------------------------------------------------
\* The step at a parameter goes on to the next parameter and leaves the
\* keyword arguments as they are.
Omits(c) ==
    /\ exc'[c] = NoExc
    /\ Len(stack'[c]) = Len(stack[c])
    /\ stack'[c][Len(stack[c])].kw = Top(c).kw
    /\ stack'[c][Len(stack[c])].i = Top(c).i + 1

\* No marker, no entry in available, a default of its own.
OwnDefaultOnly(c, param) ==
    /\ find_egg(param) = None
    /\ param.name \notin DOMAIN available[c]
    /\ param.default # Empty

\* A body that runs has a value or a default of its own for every parameter.
RunsWithDefaults ==
    \A c \in CallIds : Running(c) =>
        \A i \in 1..Len(sig[Top(c).egg.dependency]) :
            \/ sig[Top(c).egg.dependency][i].name \in DOMAIN Top(c).kw
            \/ sig[Top(c).egg.dependency][i].default # Empty

(* C18 as claimed: build_callable_kwargs omits a provider parameter from   *)
(* the keyword arguments exactly when the parameter declares no marker,    *)
(* its name is not in available and it has a default of its own, so that   *)
(* the provider runs with its own default; a marker-less parameter whose   *)
(* name is in available gets the available value, default or not.          *)
C18_Original ==
    /\ []RunsWithDefaults
    /\ [][\A c \in CallIds : (AtParam(c) /\ Steps(c)) =>
            /\ Omits(c) <=> OwnDefaultOnly(c, CurParam(c))
            /\ AtAvailable(c) => TakesAvailable(c)]_vars

(* C18, amended: build_callable_kwargs omits a provider parameter from the *)
(* keyword arguments exactly when the parameter is named self or cls, or   *)
(* declares no marker, has no entry in available under its name and has a  *)
(* default of its own; in the latter case the provider runs with its own   *)
(* default.  A marker-less parameter, not named self or cls, whose name is *)
(* in available gets the available value even when it has a default.       *)
C18_OmittedParameters ==
    /\ []RunsWithDefaults
    /\ [][\A c \in CallIds : (AtParam(c) /\ Steps(c)) =>
            /\ Omits(c) <=> \/ CurParam(c).name \in {"self", "cls"}
                            \/ OwnDefaultOnly(c, CurParam(c))
            /\ AtAvailable(c) => TakesAvailable(c)]_vars

\* A body runs with the caller's value for its defaulted parameter a and
\* without a value for its defaulted parameter b.
C18_Witness ==
    \E c \in CallIds :
        /\ Running(c)
        /\ sig[Top(c).egg.dependency] = <<Defaulted("a"), Defaulted("b")>>
        /\ DOMAIN Top(c).kw = {"a"}
        /\ Top(c).kw["a"] = CallerVal(c, "a")

-----------------------------------------------------------------------------
(* Declarations with several markers on one parameter.                     *)

MarkerEggs == {Egg("p", TRUE), Egg("q", TRUE)}

MarkerItems == {PlainItem} \cup {EggItem(e) : e \in MarkerEggs}

\* No Annotated hint, or one with one or two items of metadata.
MarkerHints ==
    {<< >>} \cup {<<x>> : x \in MarkerItems} \cup {<<x, y>> : x, y \in MarkerItems}

MarkerShapes(name) ==
    {Param(name, h, d) : h \in MarkerHints, d \in {Empty} \cup MarkerItems}

HasMarker(param) ==
    \/ param.default.kind = "egg"
    \/ \E i \in 1..Len(param.hint) : param.hint[i].kind = "egg"

\* The target declares a, or a with a marker in its annotation and then b
\* with some marker.
MarkerTargets ==
    {<<x>> : x \in MarkerShapes("a")}
        \cup {<<Annotated("a", e), y>> :
                 e \in MarkerEggs, y \in {z \in MarkerShapes("b") : HasMarker(z)}}

\* Provider p declares nothing, or a, or a with a default and then b with
\* a default and some marker.
MarkerProviders ==
    {<< >>} \cup {<<x>> : x \in MarkerShapes("a")}
            \cup {<<Defaulted("a"), y>> :
                     y \in {z \in MarkerShapes("b") : HasMarker(z) /\ z.default # Empty}}

InitMarkers ==
    /\ \E t \in MarkerTargets : \E p \in MarkerProviders : sig = Graph(t, p, << >>)
    /\ calls = {1}
    /\ given = [c \in CallIds |-> NoGiven]
    /\ pc = [c \in CallIds |-> "idle"]
    /\ ti = [c \in CallIds |-> 1]
    /\ kwargs = [c \in CallIds |-> EmptyDict]
    /\ available = [c \in CallIds |-> EmptyDict]
    /\ cache = [c \in CallIds |-> EmptyDict]
    /\ resolving = [c \in CallIds |-> {}]
    /\ stack = [c \in CallIds |-> << >>]
    /\ exc = [c \in CallIds |-> NoExc]
    /\ bound = [c \in CallIds |-> EmptyDict]
    /\ ncalls = [f \in Providers |-> 0]
    /\ log = [c \in CallIds |-> << >>]
    /\ style = [f \in Providers |-> "function"]
    /\ gens = EmptyDict
    /\ u = UtilUnused

SpecMarkers == InitMarkers /\ [][Next]_vars

\* The callable whose parameter the request at k of the history is for.
DeclaredBy(c, k) ==
    IF log[c][k].by = 0 THEN Target
    ELSE log[c][CHOOSE r \in Events(c, "request") :
                    log[c][r].id = log[c][k].by].egg.dependency

\* The parameter the request at k is for.
RequestedParam(c, k) ==
    sig[DeclaredBy(c, k)][CHOOSE i \in 1..Len(sig[DeclaredBy(c, k)]) :
                              sig[DeclaredBy(c, k)][i].name = log[c][k].param]

\* The places of the markers in a parameter's annotation metadata.
AnnotationMarkers(param) == {i \in 1..Len(param.hint) : param.hint[i].kind = "egg"}

(* C13: at most one marker is hatched per parameter, for the target's      *)
(* parameters and for the providers': the first marker of the annotation   *)
(* metadata when the annotation has one, also when the default is a marker *)
(* too, and the default's marker otherwise.                                *)
C13_AnnotationWins ==
    \A c \in CallIds : \A k \in Events(c, "request") :
        LET param == RequestedParam(c, k)
            found == AnnotationMarkers(param)
        IN  /\ found # {} =>
                  \E i \in found :
                      /\ \A j \in found : i <= j
                      /\ log[c][k].egg = param.hint[i].egg
            /\ found = {} =>
                  /\ param.default.kind = "egg"
                  /\ log[c][k].egg = param.default.egg
            /\ \A k2 \in Events(c, "request") :
                  (log[c][k2].by = log[c][k].by /\ log[c][k2].param = log[c][k].param)
                      => k2 = k

\* The wrapper and build_callable_kwargs have each hatched a parameter that
\* has two different markers in its annotation and the second of them as
\* its default as well: the first one was hatched.
C13_Witness ==
    \E c \in CallIds : \E k1, k2 \in Events(c, "request") :
        /\ log[c][k1].by = 0
        /\ log[c][k2].by # 0
        /\ \A k \in {k1, k2} :
              /\ Cardinality(AnnotationMarkers(RequestedParam(c, k))) = 2
              /\ RequestedParam(c, k).default.kind = "egg"
              /\ RequestedParam(c, k).default.egg # log[c][k].egg
              /\ RequestedParam(c, k).hint[2].egg # log[c][k].egg

-----------------------------------------------------------------------------
\* Target parameter i declares a marker and the caller passed no argument
\* for it.
NeedsHatch(c, i) ==
    /\ find_egg(sig[Target][i]) # None
    /\ sig[Target][i].name \notin CallerSupplied(c)

\* A hatch() the wrapper called for its parameter name has returned.
HatchedFor(c, name) ==
    \E a \in Events(c, "return") \cup Events(c, "cached") :
        log[c][a].by = 0 /\ log[c][a].param = name

(* C19: in one top-level call the target is invoked at most once, and only *)
(* after the hatch of every target parameter that needed one has returned; *)
(* if one of those hatches fails the target is never invoked and no marker *)
(* of a later target parameter is hatched.                                 *)
C19_TargetAfterAllHatches ==
    /\ [](\A c \in CallIds :
            /\ pc[c] = "done" =>
                  /\ Events(c, "raise") = {}
                  /\ \A i \in TargetParams :
                        NeedsHatch(c, i) => HatchedFor(c, sig[Target][i].name)
            /\ \A k \in Events(c, "raise") :
                  /\ pc[c] # "done"
                  /\ bound[c] = EmptyDict
                  /\ \A r \in Events(c, "request") : r < k)
    /\ [][\A c \in CallIds :
            pc[c] \in {"done", "failed"} => (pc'[c] = pc[c] /\ bound'[c] = bound[c])]_vars

-----------------------------------------------------------------------------
(* Two top-level calls of the decorated function.                          *)

\* The declaration graphs with at most two markers and no other parameter.
TwoCallGraphs ==
    {g \in {Graph(t, p, q) : t \in TargetSigs \cap Within[2, 0],
                             p \in Within[1, 0], q \in Within[1, 0]} :
        /\ EggCount(g[Target]) + EggCount(g["p"]) + EggCount(g["q"]) <= 2
        /\ Canonical(g)}

\* Both calls are made, without arguments; their steps interleave freely,
\* which covers every interleaving at the awaits.
InitTwoCalls ==
    /\ sig \in TwoCallGraphs
    /\ calls = CallIds
    /\ given = [c \in CallIds |-> NoGiven]
    /\ pc = [c \in CallIds |-> "idle"]
    /\ ti = [c \in CallIds |-> 1]
    /\ kwargs = [c \in CallIds |-> EmptyDict]
    /\ available = [c \in CallIds |-> EmptyDict]
    /\ cache = [c \in CallIds |-> EmptyDict]
    /\ resolving = [c \in CallIds |-> {}]
    /\ stack = [c \in CallIds |-> << >>]
    /\ exc = [c \in CallIds |-> NoExc]
    /\ bound = [c \in CallIds |-> EmptyDict]
    /\ ncalls = [f \in Providers |-> 0]
    /\ log = [c \in CallIds |-> << >>]
    /\ style = [f \in Providers |-> "function"]
    /\ gens = EmptyDict
    /\ u = UtilUnused

SpecTwoCalls == InitTwoCalls /\ [][Next]_vars

\* The values call c got from its own providers.
OwnValues(c) == {log[c][k].value : k \in Events(c, "invoke")}

(* C12: each top-level call has available, cache and resolving of its own. *)
(* Whatever the other call does, before, after or in between: a cache hit  *)
(* returns a value the same call's own invocation of the provider          *)
(* produced, so a provider the call gets an answer for is invoked in that  *)
(* call; a circular-dependency error is raised only for a provider whose   *)
(* hatch is in progress in the same call; and available, cache and         *)
(* resolving hold only what the call's own resolution put there.           *)
C12_CallsAreIsolated ==
    \A c \in CallIds :
        /\ \A k \in Events(c, "cached") :
              \E j \in InvokesOf(c, log[c][k].egg.dependency) :
                  j < k /\ log[c][j].value = log[c][k].value
        /\ \A p \in Providers : Answers(c, p) # {} => InvokesOf(c, p) # {}
        /\ \A k \in Events(c, "raise") :
              log[c][k].value.tag = "circular" =>
                  /\ OnCycle(log[c][k].value.who)
                  /\ \E r \in RequestsFor(c, log[c][k].value.who) :
                        /\ r < k
                        /\ log[c][r].id # log[c][k].id
                        /\ \A a \in Answers(c, log[c][k].value.who) :
                              log[c][a].id # log[c][r].id
        /\ resolving[c] = InProgress(c)
        /\ \A p \in DOMAIN cache[c] : cache[c][p] \in OwnValues(c)
        /\ \A name \in DOMAIN available[c] : available[c][name] \in OwnValues(c)
        /\ pc[c] = "idle" =>
              (cache[c] = EmptyDict /\ resolving[c] = {} /\ available[c] = EmptyDict)

\* Call 2 is inside the body of provider p, hatched for a cached marker,
\* while call 1 is inside its own execution of p for the same marker.
C12_Witness ==
    /\ Running(1)
    /\ Running(2)
    /\ Top(1).egg = Egg("p", TRUE)
    /\ Top(2).egg = Egg("p", TRUE)
    /\ Top(1).n = 1
    /\ Top(2).n = 2

-----------------------------------------------------------------------------
(* The helpers of util.py used directly: invoke_and_get_cleanup on a       *)
(* callable drawn in Init, then close_generator on the handle it returned. *)

InitUtil ==
    /\ sig = [f \in Callables |-> << >>]
    /\ calls = {}
    /\ given = [c \in CallIds |-> NoGiven]
    /\ pc = [c \in CallIds |-> "idle"]
    /\ ti = [c \in CallIds |-> 1]
    /\ kwargs = [c \in CallIds |-> EmptyDict]
    /\ available = [c \in CallIds |-> EmptyDict]
    /\ cache = [c \in CallIds |-> EmptyDict]
    /\ resolving = [c \in CallIds |-> {}]
    /\ stack = [c \in CallIds |-> << >>]
    /\ exc = [c \in CallIds |-> NoExc]
    /\ bound = [c \in CallIds |-> EmptyDict]
    /\ ncalls = [f \in Providers |-> 0]
    /\ log = [c \in CallIds |-> << >>]
    /\ style = [f \in Providers |-> "function"]
    /\ gens = EmptyDict
    /\ \E func \in Funcs :
          u = [pc |-> "start", func |-> func, res |-> NoResult, out |-> "none",
               raised |-> "none", warnings |-> 0]

NextUtil ==
    \/ InvokeAndGetCleanup
    \/ InvokeFirstStep
    \/ CloseGeneratorEnter
    \/ CloseGeneratorStep
    \/ CloseGeneratorHandle

SpecUtil == InitUtil /\ [][NextUtil]_vars

\* The callable is written as a generator, sync or async.
GeneratorStyle(func) == func.body \in {"gen", "asyncgen"}

\* invoke_and_get_cleanup has returned and close_generator is not yet entered.
Invoked == u.pc = "invoked"

\* close_generator is over: it returned, or it raised.
Closed == u.pc \in {"closed", "close_raised"}

-----------------------------------------------------------------------------
\* C17: when invoke_and_get_cleanup returns for a generator-style callable
\* (sync or async, a function or an object whose __call__ is one), the
\* generator was advanced exactly one step, the value returned is the one
\* it yielded first, the handle returned is that generator, still suspended,
\* and none of its teardown has run; for every other callable the value is
\* what the callable returned and the handle is None.
C17_InvokeAndGetCleanup ==
    Invoked =>
        IF GeneratorStyle(u.func)
        THEN /\ u.res.value = YieldVal
             /\ u.res.cleanup = GenObj
             /\ DOMAIN gens = {GenObj}
             /\ gens[GenObj].state = "suspended"
             /\ gens[GenObj].steps = 1
             /\ gens[GenObj].teardown = 0
        ELSE /\ u.res.value = FuncVal
             /\ u.res.cleanup = NoHandle
             /\ gens = EmptyDict

\* An object whose __call__ is a sync generator function was invoked and
\* its generator came back as the handle.
C17_Witness ==
    /\ Invoked
    /\ u.func.callable = "object"
    /\ u.func.body = "gen"
    /\ u.res.cleanup = GenObj

-----------------------------------------------------------------------------
\* What close_generator does apart from raising: nothing for the handle
\* None; otherwise it advances the generator exactly one more step; the
\* generator's end and a further yield are a quiet success; an Exception
\* and a timeout are logged once and swallowed.
CloseAdvancesOnce ==
    Closed =>
        IF u.res.cleanup = NoHandle
        THEN /\ gens = EmptyDict
             /\ u.warnings = 0
             /\ u.pc = "closed"
        ELSE /\ gens[u.res.cleanup].steps = 2
             /\ gens[u.res.cleanup].teardown = 1
             /\ u.func.script.second \in {"return", "yield"} =>
                    u.pc = "closed" /\ u.warnings = 0
             /\ u.func.script.second \in {"raise", "hang"} =>
                    u.pc = "closed" /\ u.warnings = 1

\* C16 as stated: close_generator never raises to its caller; it does
\* nothing for the handle None, otherwise advances the generator exactly
\* one more step, takes its end for success, and reports and swallows
\* every other failure and a timeout.
C16_Original ==
    /\ CloseAdvancesOnce
    /\ u.pc # "close_raised"

\* C16, amended: close_generator never raises an Exception to its caller;
\* it does nothing for the handle None, otherwise advances the generator
\* exactly one more step, takes its end for success, and reports and
\* swallows a timeout and every failure that is an Exception; a
\* BaseException that is no Exception (KeyboardInterrupt, SystemExit,
\* asyncio.CancelledError) raised by that step reaches the caller.
C16_CloseGenerator ==
    /\ CloseAdvancesOnce
    /\ u.pc = "close_raised" => u.raised = "interrupt"
    /\ Closed /\ u.res.cleanup # NoHandle /\ u.func.script.second = "interrupt" =>
          u.pc = "close_raised"

\* close_generator swallowed the Exception the teardown of a sync
\* generator raised, and logged it.
C16_Witness ==
    /\ u.pc = "closed"
    /\ u.func.body = "gen"
    /\ u.func.script.second = "raise"
    /\ u.warnings = 1
    /\ gens[u.res.cleanup].steps = 2

-----------------------------------------------------------------------------
(* Providers written as generators, used as dependencies of a target.      *)

\* decorator.py:53-57, the target is invoked and raises.
TargetRaises(c) ==
    /\ pc[c] = "loop"
    /\ stack[c] = << >>
    /\ exc[c] = NoExc
    /\ ti[c] > Len(sig[Target])
    /\ {i \in Unbound(Target, kwargs[c]) : i > Len(given[c].args)} = {}
    /\ bound' = [bound EXCEPT ![c] =
          [x \in {sig[Target][i].name : i \in 1..Len(sig[Target])} |->
              Bind(Target, given[c].args, kwargs[c],
                   CHOOSE i \in 1..Len(sig[Target]) : sig[Target][i].name = x)]]
    /\ exc' = [exc EXCEPT ![c] = Raised("target", Target)]
    /\ pc' = [pc EXCEPT ![c] = "failed"]
    /\ UNCHANGED <<style, gens, u, sig, calls, given, ti, kwargs, available, cache,
                   resolving, stack, ncalls, log>>

\* One call of a target without arguments; each provider is a function or
\* a generator function.
InitGen ==
    /\ sig \in TwoCallGraphs
    /\ calls = {1}
    /\ given = [c \in CallIds |-> NoGiven]
    /\ pc = [c \in CallIds |-> "idle"]
    /\ ti = [c \in CallIds |-> 1]
    /\ kwargs = [c \in CallIds |-> EmptyDict]
    /\ available = [c \in CallIds |-> EmptyDict]
    /\ cache = [c \in CallIds |-> EmptyDict]
    /\ resolving = [c \in CallIds |-> {}]
    /\ stack = [c \in CallIds |-> << >>]
    /\ exc = [c \in CallIds |-> NoExc]
    /\ bound = [c \in CallIds |-> EmptyDict]
    /\ ncalls = [f \in Providers |-> 0]
    /\ log = [c \in CallIds |-> << >>]
    /\ style \in [Providers -> {"function", "generator"}]
    /\ gens = EmptyDict
    /\ u = UtilUnused

NextGen ==
    \/ Next
    \/ \E c \in CallIds : TargetRaises(c)

SpecGen == InitGen /\ [][NextGen]_vars

\* The target of call c was invoked and has returned or raised.
TargetCompleted(c) ==
    \/ pc[c] = "done"
    \/ pc[c] = "failed" /\ exc[c].kind = "target"

\* C11: once the target has completed, by returning or by raising, the
\* teardown code (the part after the first yield) of every generator a
\* generator-based provider gave during the call has run exactly once.
C11_TeardownRunsOnce ==
    \A c \in calls :
        TargetCompleted(c) => \A g \in DOMAIN gens : gens[g].teardown = 1

====
